---- MODULE Spec2Model ----
(***************************************************************************)
(* Report-assembly workflow of the session analysis service                *)
(* (backend_integration_routes.py): the four /analysis handlers, the step  *)
(* and final analyzers, the scoring heuristic and the suggestion extractor *)
(* over the document store collections sessions / children / lessons /     *)
(* llm_reports.                                                            *)
(*                                                                         *)
(* Optional values (Python None) are sequences of length <= 1:             *)
(*   <<>> is None, <<v>> is the value v.                                   *)
(* Texts are sequences of tokens (f-string pieces) or of lines.            *)
(***************************************************************************)
EXTENDS Integers, Sequences, FiniteSets, TLC

VARIABLES
    llm_reports,   \* db.llm_reports: sequence of documents in insertion order
    clock,         \* datetime.utcnow(): the next timestamp handed out
    resp,          \* the handler invocation that completed last and its outcome
    req,           \* the requests in flight (interleaved specification)
    probe          \* input / output of calculate_performance_score (SpecScore)

vars == <<llm_reports, clock, resp, req, probe>>

-----------------------------------------------------------------------------
(* Bounds *)

MaxClock == 3       \* timestamps handed out: handler runs that write
MaxReports == 2     \* documents ever inserted in llm_reports
NegDurations == 3   \* negative duration_seconds probed: -NegDurations .. -1
MaxDuration == 310  \* largest duration_seconds probed

-----------------------------------------------------------------------------
(* Optional values *)

None == <<>>
Some(v) == <<v>>
IsNone(o) == o = <<>>
Val(o) == o[1]

-----------------------------------------------------------------------------
(* The session store: read-only reference data of this service *)

\* ObjectId(request.session_id): raises InvalidId unless the string is a
\* well-formed object id
ValidObjectId(s) == s \in {"a1", "a2", "a3"}

db_sessions ==
    << [_id |-> "a1", child_id |-> "c1", lesson_id |-> "l1",
        total_score |-> Some(85), status |-> "completed"],
       [_id |-> "a2", child_id |-> "c2", lesson_id |-> "l2",
        total_score |-> None, status |-> "in-progress"] >>

db_children == << [_id |-> "c1", name |-> "Ayse"] >>

db_lessons == << [_id |-> "l1", lesson_name |-> "Renkler"],
                 [_id |-> "l2", lesson_name |-> "Sayilar"] >>

\* collection.find_one({"_id": id}): the first matching document, or None
MinOf(S) == CHOOSE i \in S : \A j \in S : i <= j

IndexById(coll, id) ==
    LET idx == {i \in 1..Len(coll) : coll[i]._id = id}
    IN IF idx = {} THEN 0 ELSE MinOf(idx)

FindById(coll, id) ==
    LET i == IndexById(coll, id)
    IN IF i = 0 THEN None ELSE Some(coll[i])

\* db.llm_reports.find_one({"session_id": session_id})
FindBySessionId(coll, session_id) ==
    LET idx == {i \in 1..Len(coll) : coll[i].session_id = session_id}
    IN IF idx = {} THEN None ELSE Some(coll[MinOf(idx)])

-----------------------------------------------------------------------------
(* Step results *)

KnownStepTypes == {"AI_CONVERSATION", "AI_CV_GAME", "AI_QUIZ"}
StepTypes == KnownStepTypes \cup {"AI_OTHER"}
StepIds == {3, 7}

StepResult(id, type, succ, dur) ==
    [step_id |-> id, step_type |-> type, is_successful |-> succ,
     duration_seconds |-> dur]

\* f"step_{request.step_result.step_id}"
StepKey(step_id) == "step_" \o ToString(step_id)

-----------------------------------------------------------------------------
(* Scoring heuristic *)

\* int(base_score) after base_score *= tenths / 10
Scaled(base, tenths) == (base * tenths) \div 10

\* `if step_result.duration_seconds:` - None and 0 are both falsy
Truthy(dur) == ~IsNone(dur) /\ Val(dur) # 0

Min(a, b) == IF a < b THEN a ELSE b
Max(a, b) == IF a > b THEN a ELSE b

calculate_performance_score(step_result) ==
    IF IsNone(step_result.is_successful) THEN 0
    ELSE LET base == IF Val(step_result.is_successful) THEN 100 ELSE 30
             dur == step_result.duration_seconds
             adjusted ==
                 IF Truthy(dur)
                 THEN IF Val(dur) < 60 THEN Scaled(base, 8)
                      ELSE IF Val(dur) > 300 THEN Scaled(base, 9)
                      ELSE base
                 ELSE base
         IN Min(100, Max(0, adjusted))

-----------------------------------------------------------------------------
(* Exceptions and responses *)

HTTPException(status_code, detail) ==
    [type |-> "HTTPException", status_code |-> status_code, detail |-> detail]

\* bson.errors.InvalidId, raised by ObjectId(...)
InvalidId == [type |-> "InvalidId", status_code |-> 0,
              detail |-> <<"not a valid ObjectId">>]

\* the classes `except Exception` catches: fastapi.HTTPException derives from
\* Exception, like every other error raised in a handler body
ExceptionClasses == {"HTTPException", "InvalidId"}

Return(body) == [raised |-> FALSE, exc |-> None, body |-> Some(body)]
Raise(exc) == [raised |-> TRUE, exc |-> Some(exc), body |-> None]

\* str(e)
Str(exc) ==
    IF exc.type = "HTTPException"
    THEN <<ToString(exc.status_code), ": ">> \o exc.detail
    ELSE exc.detail

\* try: <body> except Exception as e: raise HTTPException(500, f"{prefix}{str(e)}")
ExceptException(prefix, result) ==
    IF result.raised /\ Val(result.exc).type \in ExceptionClasses
    THEN Raise(HTTPException(500, <<prefix>> \o Str(Val(result.exc))))
    ELSE result

\* what the framework sends: the returned body, or the HTTPException's status
Response(result) ==
    IF result.raised
    THEN [code |-> Val(result.exc).status_code, detail |-> Val(result.exc).detail,
          body |-> None]
    ELSE [code |-> 200, detail |-> <<>>, body |-> result.body]

-----------------------------------------------------------------------------
(* The LLM client: returns generated text, or fails with an error *)

LLMStepOutcomes == { [ok |-> TRUE, text |-> "step feedback"],
                     [ok |-> FALSE, text |-> "llm timeout"] }

\* lines of the final texts the LLM may return, and for each what
\* line.strip(), len(...) and the keyword test on line.lower() give
FinalTextLong ==
    << "Genel ozet", "Oneri: her gun on dakika calisma", "  Tavsiye: sesli okuma  ",
       "oneri", "Gelisim alanlari: dikkat suresi", "Guclu yonler: renkleri tanima",
       "Calisma plani hazirlayin", "Ebeveyn tavsiyeleri: sabirli olun",
       "Gelecek dersler icin oneriler" >>
FinalTextShort == << "Genel ozet" >>

LLMFinalOutcomes == { [ok |-> TRUE, text |-> FinalTextLong],
                      [ok |-> TRUE, text |-> FinalTextShort],
                      [ok |-> FALSE, text |-> <<"llm timeout">>] }

Strip(line) ==
    IF line = "  Tavsiye: sesli okuma  " THEN "Tavsiye: sesli okuma" ELSE line

StrLen(line) ==
    CASE line = "Genel ozet" -> 10
      [] line = "Oneri: her gun on dakika calisma" -> 32
      [] line = "Tavsiye: sesli okuma" -> 20
      [] line = "oneri" -> 5
      [] line = "Gelisim alanlari: dikkat suresi" -> 31
      [] line = "Guclu yonler: renkleri tanima" -> 29
      [] line = "Calisma plani hazirlayin" -> 24
      [] line = "Ebeveyn tavsiyeleri: sabirli olun" -> 33
      [] line = "Gelecek dersler icin oneriler" -> 29
      [] OTHER -> 0

Keywords == {"oneri", "tavsiye", "gelisim", "calis"}

\* the keywords that occur in line.lower()
KeywordsIn(line) ==
    CASE line = "Oneri: her gun on dakika calisma" -> {"oneri", "calis"}
      [] line = "Tavsiye: sesli okuma" -> {"tavsiye"}
      [] line = "oneri" -> {"oneri"}
      [] line = "Gelisim alanlari: dikkat suresi" -> {"gelisim"}
      [] line = "Calisma plani hazirlayin" -> {"calis"}
      [] line = "Ebeveyn tavsiyeleri: sabirli olun" -> {"tavsiye"}
      [] line = "Gelecek dersler icin oneriler" -> {"oneri"}
      [] OTHER -> {}

MaxSuggestions == 5
MinSuggestionLen == 10

RECURSIVE StripAll(_)
StripAll(lines) ==
    IF lines = <<>> THEN <<>>
    ELSE <<Strip(Head(lines))>> \o StripAll(Tail(lines))

Meaningful(line) ==
    (KeywordsIn(line) \cap Keywords # {}) /\ StrLen(line) > MinSuggestionLen

extract_suggestions(final_text) ==
    LET suggestions == SelectSeq(StripAll(final_text), Meaningful)
    IN SubSeq(suggestions, 1, Min(MaxSuggestions, Len(suggestions)))

\* session.get("total_score", 0): the key's value when present, None included
calculate_overall_score(session) == session.total_score

-----------------------------------------------------------------------------
(* Step analyzer and final analyzer *)

\* the prompt variable after the if / elif / elif chain: unbound (None) for a
\* step type none of the three branches handles
Prompt(step_type) ==
    CASE step_type = "AI_CONVERSATION" -> Some("ses etkilesimi")
      [] step_type = "AI_CV_GAME" -> Some("gorsel oyun")
      [] step_type = "AI_QUIZ" -> Some("quiz")
      [] OTHER -> None

\* the error raised inside generate_step_analysis' try block, if any: reading
\* the unbound prompt raises before the LLM is called
StepAnalysisError(step_result, llm) ==
    IF IsNone(Prompt(step_result.step_type)) THEN Some("UnboundLocalError: prompt")
    ELSE IF ~llm.ok THEN Some(llm.text)
    ELSE None

\* variant: the except branch still scores the step
generate_step_analysis_scored(step_result, llm, now) ==
    [step_id |-> step_result.step_id,
     step_type |-> step_result.step_type,
     analysis |-> IF IsNone(StepAnalysisError(step_result, llm)) THEN <<llm.text>>
                  ELSE <<"Analiz hatasi: ", Val(StepAnalysisError(step_result, llm))>>,
     performance_score |-> calculate_performance_score(step_result),
     generated_at |-> now]

generate_step_analysis(step_result, llm, now) ==
    LET err == StepAnalysisError(step_result, llm)
    IN IF IsNone(err)
       THEN [step_id |-> step_result.step_id,
             step_type |-> step_result.step_type,
             analysis |-> <<llm.text>>,
             performance_score |-> calculate_performance_score(step_result),
             generated_at |-> now]
       ELSE [step_id |-> step_result.step_id,
             step_type |-> step_result.step_type,
             analysis |-> <<"Analiz hatasi: ", Val(err)>>,
             performance_score |-> 0,
             generated_at |-> now]

generate_final_analysis(session, llm, now) ==
    IF llm.ok
    THEN [final_report |-> [t |-> "str", v |-> llm.text],
          suggestions |-> [t |-> "list", v |-> extract_suggestions(llm.text)],
          overall_score |-> calculate_overall_score(session),
          generated_at |-> now]
    ELSE [final_report |-> [t |-> "str", v |-> <<"Final analiz hatasi: ">> \o llm.text],
          suggestions |-> [t |-> "list",
                           v |-> <<"Teknik hata nedeniyle oneri uretilemedi">>],
          overall_score |-> Some(0),
          generated_at |-> now]

-----------------------------------------------------------------------------
(* The report store *)

EmptyDict == [t |-> "dict", v |-> <<>>]
EmptyBucket == [k \in {} |-> None]

\* ObjectId(): an identifier no stored document has
NewObjectId(coll) == Len(coll) + 1

NewReport(id, session_id, child_id, now) ==
    [_id |-> id,
     session_id |-> session_id,
     child_id |-> child_id,
     step_reports |-> [voice_reports |-> EmptyBucket,
                       game_reports |-> EmptyBucket,
                       test_reports |-> EmptyBucket,
                       final_report |-> EmptyDict,
                       suggestion |-> EmptyDict],
     created_at |-> now,
     updated_at |-> now,
     finalized_at |-> None]

\* db.llm_reports.insert_one(llm_report): no uniqueness is declared on session_id
insert_one(coll, doc) == Append(coll, doc)

\* variant: the bucket is a list appended to, each entry under the next index
PutStep_append(bucket, key, step_analysis) ==
    LET next == "step_#" \o ToString(Cardinality(DOMAIN bucket) + 1)
    IN [k \in DOMAIN bucket \cup {next} |->
          IF k = next THEN step_analysis ELSE bucket[k]]

\* bucket[key] = step_analysis
PutStep(bucket, key, step_analysis) ==
    [k \in DOMAIN bucket \cup {key} |-> IF k = key THEN step_analysis ELSE bucket[k]]

\* variant: the quiz and the game branch are swapped
RouteStep_swapped(step_reports, step_result, step_analysis) ==
    LET key == StepKey(step_result.step_id)
        step_type == step_result.step_type
    IN IF step_type = "AI_CONVERSATION"
       THEN [step_reports EXCEPT !.voice_reports = PutStep(@, key, step_analysis)]
       ELSE IF step_type = "AI_CV_GAME"
       THEN [step_reports EXCEPT !.test_reports = PutStep(@, key, step_analysis)]
       ELSE IF step_type = "AI_QUIZ"
       THEN [step_reports EXCEPT !.game_reports = PutStep(@, key, step_analysis)]
       ELSE step_reports

\* variant: a final else files every other step type under test_reports
RouteStep_else(step_reports, step_result, step_analysis) ==
    LET key == StepKey(step_result.step_id)
        step_type == step_result.step_type
    IN IF step_type = "AI_CONVERSATION"
       THEN [step_reports EXCEPT !.voice_reports = PutStep(@, key, step_analysis)]
       ELSE IF step_type = "AI_CV_GAME"
       THEN [step_reports EXCEPT !.game_reports = PutStep(@, key, step_analysis)]
       ELSE [step_reports EXCEPT !.test_reports = PutStep(@, key, step_analysis)]

\* the if / elif / elif chain that files the analysis under its bucket
RouteStep(step_reports, step_result, step_analysis) ==
    LET key == StepKey(step_result.step_id)
        step_type == step_result.step_type
    IN IF step_type = "AI_CONVERSATION"
       THEN [step_reports EXCEPT !.voice_reports = PutStep(@, key, step_analysis)]
       ELSE IF step_type = "AI_CV_GAME"
       THEN [step_reports EXCEPT !.game_reports = PutStep(@, key, step_analysis)]
       ELSE IF step_type = "AI_QUIZ"
       THEN [step_reports EXCEPT !.test_reports = PutStep(@, key, step_analysis)]
       ELSE step_reports

\* variant: the document is replaced, not $set: finalized_at is lost
SetStepReports_replace(doc, step_reports, now) ==
    [doc EXCEPT !.step_reports = step_reports, !.updated_at = now,
                !.finalized_at = None]

\* {"$set": {"step_reports": step_reports, "updated_at": now}}
SetStepReports(doc, step_reports, now) ==
    [doc EXCEPT !.step_reports = step_reports, !.updated_at = now]

\* variant: "step_reports" is $set as a whole to the two final fields
SetFinal_whole(doc, final_analysis, now) ==
    [doc EXCEPT !.step_reports = [voice_reports |-> EmptyBucket,
                                  game_reports |-> EmptyBucket,
                                  test_reports |-> EmptyBucket,
                                  final_report |-> final_analysis.final_report,
                                  suggestion |-> final_analysis.suggestions],
                !.finalized_at = Some(now),
                !.updated_at = now]

\* {"$set": {"step_reports.final_report": ..., "step_reports.suggestion": ...,
\*           "finalized_at": now, "updated_at": now}}
SetFinal(doc, final_analysis, now) ==
    [doc EXCEPT !.step_reports.final_report = final_analysis.final_report,
                !.step_reports.suggestion = final_analysis.suggestions,
                !.finalized_at = Some(now),
                !.updated_at = now]

\* variant: the filter is dropped, the first document of the collection is set
update_one_any(coll, id, doc) ==
    IF coll = <<>> THEN coll ELSE [coll EXCEPT ![1] = [doc EXCEPT !._id = coll[1]._id]]

\* db.llm_reports.update_one({"_id": id}, {"$set": ...}) with the document
\* the $set produces; no document matching is no change
update_one(coll, id, doc) ==
    LET i == IndexById(coll, id)
    IN IF i = 0 THEN coll ELSE [coll EXCEPT ![i] = doc]

Stored(coll, id) == coll[IndexById(coll, id)]

-----------------------------------------------------------------------------
(* Handler bodies, piece by piece between the awaited store calls *)

\* ObjectId(session_id), then the session / child / lesson lookups
LookupSession(session_id) ==
    IF ~ValidObjectId(session_id) THEN Raise(InvalidId)
    ELSE LET session == FindById(db_sessions, session_id)
         IN IF IsNone(session)
            THEN Raise(HTTPException(404, <<"Session not found">>))
            ELSE Return([session |-> Val(session),
                         child |-> FindById(db_children, Val(session).child_id),
                         lesson |-> FindById(db_lessons, Val(session).lesson_id)])

\* the report lookup of analyze-step and finalize
LookupReport(coll, session_id) ==
    LET llm_report == FindBySessionId(coll, session_id)
    IN IF IsNone(llm_report)
       THEN Raise(HTTPException(404, <<"LLM report not found">>))
       ELSE Return(Val(llm_report))

SessionInfo(ctx) ==
    [child_name |-> IF IsNone(ctx.child) THEN "Unknown" ELSE Val(ctx.child).name,
     lesson_name |-> IF IsNone(ctx.lesson) THEN "Unknown"
                     ELSE Val(ctx.lesson).lesson_name]

\* initialize: build the document, insert it, answer
InsertReport(coll, session_id, ctx, now) ==
    LET llm_report == NewReport(NewObjectId(coll), session_id,
                                ctx.session.child_id, now)
    IN [reports |-> insert_one(coll, llm_report),
        result |-> Return([status |-> "success",
                           report_id |-> llm_report._id,
                           session_info |-> SessionInfo(ctx)])]

\* analyze-step: generate the analysis, file it in the report that was read,
\* write step_reports back, answer
UpdateStep(coll, llm_report, step_result, llm, now) ==
    LET step_analysis == generate_step_analysis(step_result, llm, now)
        step_reports == RouteStep(llm_report.step_reports, step_result, step_analysis)
        id == llm_report._id
    IN [reports |-> update_one(coll, id,
                               SetStepReports(Stored(coll, id), step_reports, now)),
        result |-> Return([status |-> "success",
                           step_id |-> step_result.step_id,
                           analysis |-> step_analysis])]

\* finalize: generate the final analysis, set the final fields, answer
UpdateFinal(coll, llm_report, ctx, llm, now) ==
    LET final_analysis == generate_final_analysis(ctx.session, llm, now)
        id == llm_report._id
    IN [reports |-> update_one(coll, id,
                               SetFinal(Stored(coll, id), final_analysis, now)),
        result |-> Return([status |-> "success",
                           final_analysis |-> final_analysis])]

\* getReport: the report lookup and the answer
ReadReport(coll, session_id) ==
    LET llm_report == FindBySessionId(coll, session_id)
    IN IF IsNone(llm_report)
       THEN Raise(HTTPException(404, <<"Report not found">>))
       ELSE Return([status |-> "success",
                    report |-> [Val(llm_report) EXCEPT !._id = ToString(@)]])

-----------------------------------------------------------------------------
(* The handlers, each run from request to response without interleaving.  *)
(* locals: what the handler held when it reached its LLM call, None when   *)
(* it raised before.                                                       *)

\* the LLM outcome a step analysis consumed: none when the prompt is unbound
LLMCalled(step_result, llm) ==
    IF IsNone(Prompt(step_result.step_type)) THEN None ELSE Some(llm)

Locals(step_result, llm_report, llm) ==
    Some([step_result |-> step_result, llm_report |-> llm_report, llm |-> llm])

initialize_session_analysis(coll, session_id, now) ==
    LET ctx == LookupSession(session_id)
        out == IF ctx.raised THEN [reports |-> coll, result |-> ctx]
               ELSE InsertReport(coll, session_id, Val(ctx.body), now)
    IN [reports |-> out.reports,
        result |-> ExceptException("Failed to initialize session: ", out.result),
        locals |-> None]

analyze_step_completion(coll, session_id, step_result, llm, now) ==
    LET ctx == LookupSession(session_id)
        rep == LookupReport(coll, session_id)
        early == ctx.raised \/ rep.raised
        out == IF ctx.raised THEN [reports |-> coll, result |-> ctx]
               ELSE IF rep.raised THEN [reports |-> coll, result |-> rep]
               ELSE UpdateStep(coll, Val(rep.body), step_result, llm, now)
    IN [reports |-> out.reports,
        result |-> ExceptException("Failed to analyze step: ", out.result),
        locals |-> IF early THEN None
                   ELSE Locals(Some(step_result), Val(rep.body),
                               LLMCalled(step_result, llm))]

get_session_report(coll, session_id) ==
    [reports |-> coll,
     result |-> ExceptException("Failed to get report: ", ReadReport(coll, session_id)),
     locals |-> None]

finalize_session_analysis(coll, session_id, llm, now) ==
    LET ctx == LookupSession(session_id)
        rep == LookupReport(coll, session_id)
        early == ctx.raised \/ rep.raised
        out == IF ctx.raised THEN [reports |-> coll, result |-> ctx]
               ELSE IF rep.raised THEN [reports |-> coll, result |-> rep]
               ELSE UpdateFinal(coll, Val(rep.body), Val(ctx.body), llm, now)
    IN [reports |-> out.reports,
        result |-> ExceptException("Failed to finalize session: ", out.result),
        locals |-> IF early THEN None ELSE Locals(None, Val(rep.body), Some(llm))]

-----------------------------------------------------------------------------
(* Inputs *)

SuccessFlags == {Some(TRUE), Some(FALSE), None}

\* session ids of the requests served one after the other: a session that
\* exists, one that does not, a string that is no object id
SeqSessionIds == {"a1", "a3", "zz"}

StepInputs ==
    {StepResult(id, type, Some(TRUE), Some(45)) : id \in StepIds, type \in StepTypes}

Durations == {None} \cup {Some(d) : d \in (0 - NegDurations)..MaxDuration}

ScoreInputs ==
    {StepResult(3, "AI_QUIZ", succ, dur) : succ \in SuccessFlags, dur \in Durations}

Procs == {1, 2}

Idle == [pc |-> "idle", op |-> "none", session_id |-> "", step_result |-> None,
         ctx |-> None, llm_report |-> None, resp |-> None]
NoResp == [op |-> "none", session_id |-> "", code |-> 0, detail |-> <<>>,
           body |-> None, locals |-> None]
NoProbe == [step_result |-> StepResult(3, "AI_QUIZ", None, None), score |-> None]

Answer(op, session_id, out) ==
    LET r == Response(out.result)
    IN [op |-> op, session_id |-> session_id, code |-> r.code, detail |-> r.detail,
        body |-> r.body, locals |-> out.locals]

\* a handler run that writes takes the next timestamp
Tick(result) == IF result.raised THEN clock ELSE clock + 1

-----------------------------------------------------------------------------
(* Spec: requests served one after the other *)

Init ==
    /\ llm_reports = <<>>
    /\ clock = 1
    /\ resp = NoResp
    /\ req = [p \in Procs |-> Idle]
    /\ probe = NoProbe

Initialize(session_id) ==
    LET out == initialize_session_analysis(llm_reports, session_id, clock)
    IN /\ ~out.result.raised => (clock <= MaxClock /\ Len(llm_reports) < MaxReports)
       /\ llm_reports' = out.reports
       /\ clock' = Tick(out.result)
       /\ resp' = Answer("initialize", session_id, out)
       /\ UNCHANGED <<req, probe>>

AnalyzeStep(session_id, step_result, llm) ==
    LET out == analyze_step_completion(llm_reports, session_id, step_result, llm, clock)
    IN /\ ~out.result.raised => clock <= MaxClock
       /\ llm_reports' = out.reports
       /\ clock' = Tick(out.result)
       /\ resp' = Answer("analyze", session_id, out)
       /\ UNCHANGED <<req, probe>>

GetReport(session_id) ==
    LET out == get_session_report(llm_reports, session_id)
    IN /\ llm_reports' = out.reports
       /\ resp' = Answer("report", session_id, out)
       /\ UNCHANGED <<clock, req, probe>>

Finalize(session_id, llm) ==
    LET out == finalize_session_analysis(llm_reports, session_id, llm, clock)
    IN /\ ~out.result.raised => clock <= MaxClock
       /\ llm_reports' = out.reports
       /\ clock' = Tick(out.result)
       /\ resp' = Answer("finalize", session_id, out)
       /\ UNCHANGED <<req, probe>>

Next ==
    \/ \E session_id \in SeqSessionIds : Initialize(session_id)
    \/ \E session_id \in SeqSessionIds, step_result \in StepInputs,
          llm \in LLMStepOutcomes :
          AnalyzeStep(session_id, step_result, llm)
    \/ \E session_id \in SeqSessionIds : GetReport(session_id)
    \/ \E session_id \in SeqSessionIds, llm \in LLMFinalOutcomes :
          Finalize(session_id, llm)

Spec == Init /\ [][Next]_vars

-----------------------------------------------------------------------------
(* SpecScore: calculate_performance_score applied to each input *)

InitScore ==
    /\ llm_reports = <<>>
    /\ clock = 1
    /\ resp = NoResp
    /\ req = [p \in Procs |-> Idle]
    /\ probe \in {[step_result |-> sr, score |-> None] : sr \in ScoreInputs}

Score ==
    /\ IsNone(probe.score)
    /\ probe' = [probe EXCEPT !.score = Some(calculate_performance_score(probe.step_result))]
    /\ UNCHANGED <<llm_reports, clock, resp, req>>

NextScore == Score

SpecScore == InitScore /\ [][NextScore]_vars

-----------------------------------------------------------------------------
(* SpecConc: two requests in flight, interleaved at the awaited store calls. *)
(* A store call takes effect in one step; what a handler does between two   *)
(* store calls (the LLM call included) belongs to the step of the later one. *)

ConcSessionIds == {"a1", "a2"}
ConcOps == {"initialize", "analyze", "finalize", "report"}
ConcStepInputs == {StepResult(id, "AI_QUIZ", Some(TRUE), Some(45)) : id \in StepIds}
ConcStepOutcomes == {o \in LLMStepOutcomes : o.ok}
ConcFinalOutcomes == {o \in LLMFinalOutcomes : o.ok /\ o.text = FinalTextShort}

Prefix(op) ==
    CASE op = "initialize" -> "Failed to initialize session: "
      [] op = "analyze" -> "Failed to analyze step: "
      [] op = "report" -> "Failed to get report: "
      [] op = "finalize" -> "Failed to finalize session: "

\* the request ends: its try body returned or raised
Done(r, result) ==
    [r EXCEPT !.pc = "done",
              !.resp = Some(Response(ExceptException(Prefix(r.op), result)))]

\* a request arrives; initialize, analyze-step and finalize look the session,
\* the child and the lesson up
Receive(p, op, session_id, step_result) ==
    /\ req[p].pc = "idle"
    /\ (op = "analyze") = ~IsNone(step_result)
    /\ LET r == [Idle EXCEPT !.op = op, !.session_id = session_id,
                             !.step_result = step_result]
           ctx == LookupSession(session_id)
       IN req' = [req EXCEPT ![p] =
                    IF op = "report" THEN [r EXCEPT !.pc = "read_report"]
                    ELSE IF ctx.raised THEN Done(r, ctx)
                    ELSE [r EXCEPT !.pc = IF op = "initialize" THEN "insert"
                                          ELSE "find_report",
                                   !.ctx = ctx.body]]
    /\ UNCHANGED <<llm_reports, clock, resp, probe>>

\* analyze-step, finalize: find_one on llm_reports
FindReport(p) ==
    /\ req[p].pc = "find_report"
    /\ LET rep == LookupReport(llm_reports, req[p].session_id)
       IN req' = [req EXCEPT ![p] =
                    IF rep.raised THEN Done(@, rep)
                    ELSE [@ EXCEPT !.pc = "update", !.llm_report = rep.body]]
    /\ UNCHANGED <<llm_reports, clock, resp, probe>>

\* getReport: find_one on llm_reports, and the answer
ReadReportStep(p) ==
    /\ req[p].pc = "read_report"
    /\ req' = [req EXCEPT ![p] = Done(@, ReadReport(llm_reports, req[p].session_id))]
    /\ UNCHANGED <<llm_reports, clock, resp, probe>>

\* initialize: insert_one, and the answer
Insert(p) ==
    /\ req[p].pc = "insert"
    /\ clock <= MaxClock
    /\ Len(llm_reports) < MaxReports
    /\ LET out == InsertReport(llm_reports, req[p].session_id, Val(req[p].ctx), clock)
       IN /\ llm_reports' = out.reports
          /\ req' = [req EXCEPT ![p] = Done(@, out.result)]
    /\ clock' = clock + 1
    /\ UNCHANGED <<resp, probe>>

\* analyze-step: the step analysis, update_one with the step_reports of the
\* report read earlier, and the answer
WriteStep(p, llm) ==
    /\ req[p].pc = "update"
    /\ req[p].op = "analyze"
    /\ clock <= MaxClock
    /\ LET out == UpdateStep(llm_reports, Val(req[p].llm_report),
                             Val(req[p].step_result), llm, clock)
       IN /\ llm_reports' = out.reports
          /\ req' = [req EXCEPT ![p] = Done(@, out.result)]
    /\ clock' = clock + 1
    /\ UNCHANGED <<resp, probe>>

\* finalize: the final analysis, update_one of the final fields, and the answer
WriteFinal(p, llm) ==
    /\ req[p].pc = "update"
    /\ req[p].op = "finalize"
    /\ clock <= MaxClock
    /\ LET out == UpdateFinal(llm_reports, Val(req[p].llm_report), Val(req[p].ctx),
                              llm, clock)
       IN /\ llm_reports' = out.reports
          /\ req' = [req EXCEPT ![p] = Done(@, out.result)]
    /\ clock' = clock + 1
    /\ UNCHANGED <<resp, probe>>

\* the response is sent and the request is gone
Respond(p) ==
    /\ req[p].pc = "done"
    /\ req' = [req EXCEPT ![p] = Idle]
    /\ UNCHANGED <<llm_reports, clock, resp, probe>>

NextConc ==
    \/ \E p \in Procs, op \in ConcOps, session_id \in ConcSessionIds,
          step_result \in {None} \cup {Some(sr) : sr \in ConcStepInputs} :
          Receive(p, op, session_id, step_result)
    \/ \E p \in Procs : FindReport(p)
    \/ \E p \in Procs : ReadReportStep(p)
    \/ \E p \in Procs : Insert(p)
    \/ \E p \in Procs, llm \in ConcStepOutcomes : WriteStep(p, llm)
    \/ \E p \in Procs, llm \in ConcFinalOutcomes : WriteFinal(p, llm)
    \/ \E p \in Procs : Respond(p)

SpecConc == Init /\ [][NextConc]_vars

-----------------------------------------------------------------------------
(* Properties: what they read *)

AllSessionIds == SeqSessionIds \cup ConcSessionIds

SessionExists(session_id) == ~IsNone(FindById(db_sessions, session_id))
ReportExists(session_id) == ~IsNone(FindBySessionId(llm_reports, session_id))
ReportsOf(session_id) ==
    {i \in 1..Len(llm_reports) : llm_reports[i].session_id = session_id}
Finalized(session_id) ==
    /\ ReportExists(session_id)
    /\ ~IsNone(Val(FindBySessionId(llm_reports, session_id)).finalized_at)

Buckets == {"voice_reports", "game_reports", "test_reports"}
Fields == Buckets \cup {"final_report", "suggestion"}

BucketFor(step_type) ==
    CASE step_type = "AI_CONVERSATION" -> "voice_reports"
      [] step_type = "AI_CV_GAME" -> "game_reports"
      [] step_type = "AI_QUIZ" -> "test_reports"

\* the last request served was this operation and returned normally
Served(op) == resp.op = op /\ resp.code = 200

\* of the last analyze-step / finalize served: the report it read, the report
\* as stored now, the step, the LLM outcome, the analysis returned
ReadBefore == Val(resp.locals).llm_report
StoredAfter == Stored(llm_reports, ReadBefore._id)
TheStep == Val(Val(resp.locals).step_result)
TheLLM == Val(resp.locals).llm
TheAnalysis == Val(resp.body).analysis
TheKey == StepKey(TheStep.step_id)

SameBuckets(a, b) == \A f \in Buckets : a[f] = b[f]

-----------------------------------------------------------------------------
(* C1: whenever the session an /analysis operation needs is absent from the *)
(* session store, or the report it needs is absent from the report store,   *)
(* the request ends with 404; getReport without a prior initialize returns  *)
(* 404. Stated as claimed; the handlers answer 500.                         *)
C1_NotFoundIs404 ==
    LET sid == resp.session_id
        sessionAbsent == /\ resp.op \in {"initialize", "analyze", "finalize"}
                         /\ ValidObjectId(sid)
                         /\ ~SessionExists(sid)
        reportAbsent == \/ resp.op = "report" /\ ~ReportExists(sid)
                        \/ /\ resp.op \in {"analyze", "finalize"}
                           /\ SessionExists(sid)
                           /\ ~ReportExists(sid)
    IN (sessionAbsent \/ reportAbsent) => resp.code = 404

(* C2: initialize for a session that already has a report inserts nothing   *)
(* (Conflict), so the report store holds at most one report per session.    *)
(* Stated as claimed; initialize inserts a second report.                   *)
C2_OneReportPerSession ==
    \A sid \in AllSessionIds : Cardinality(ReportsOf(sid)) <= 1

(* C3: recordStep on an initialized report with the LLM call succeeding     *)
(* stores the returned StepAnalysis under step_<id> in exactly the bucket    *)
(* of the step type, leaves every other entry, the other buckets,           *)
(* final_report and suggestion as they were read, and returns the record    *)
(* it stored; AI_QUIZ, step 3, successful, 45 s is test_reports["step_3"]    *)
(* with performance_score 80.                                               *)
C3_StepRouted ==
    (/\ Served("analyze")
     /\ TheStep.step_type \in KnownStepTypes
     /\ TheLLM # None /\ Val(TheLLM).ok)
    => LET before == ReadBefore.step_reports
           after == StoredAfter.step_reports
           b == BucketFor(TheStep.step_type)
       IN /\ DOMAIN after[b] = DOMAIN before[b] \cup {TheKey}
          /\ after[b][TheKey] = TheAnalysis
          /\ \A k \in DOMAIN before[b] \ {TheKey} : after[b][k] = before[b][k]
          /\ \A f \in Fields \ {b} : after[f] = before[f]
          /\ TheAnalysis.step_id = TheStep.step_id
          /\ TheAnalysis.step_type = TheStep.step_type
          /\ TheAnalysis.analysis = <<Val(TheLLM).text>>
          /\ (TheStep = StepResult(3, "AI_QUIZ", Some(TRUE), Some(45))
                => /\ TheKey = "step_3"
                   /\ after.test_reports["step_3"].performance_score = 80)

C3_Witness ==
    /\ Served("analyze")
    /\ TheStep = StepResult(3, "AI_QUIZ", Some(TRUE), Some(45))
    /\ TheLLM # None /\ Val(TheLLM).ok
    /\ StoredAfter.step_reports.test_reports["step_3"].performance_score = 80
    /\ DOMAIN ReadBefore.step_reports.voice_reports # {}

(* C4: when the LLM client fails during recordStep on an existing session   *)
(* and report, the request still succeeds, with a StepAnalysis whose         *)
(* performance_score is 0 and whose text embeds the error message; that     *)
(* record is stored in the bucket of the step type and updated-at is        *)
(* bumped. No recordStep on an existing session and report fails.           *)
C4_LLMFailureDegrades ==
    /\ (/\ resp.op = "analyze"
        /\ SessionExists(resp.session_id)
        /\ ReportExists(resp.session_id)) => resp.code = 200
    /\ (/\ Served("analyze")
        /\ TheLLM # None /\ ~Val(TheLLM).ok)
       => /\ Val(resp.body).status = "success"
          /\ TheAnalysis.performance_score = 0
          /\ \E i \in DOMAIN TheAnalysis.analysis :
                TheAnalysis.analysis[i] = Val(TheLLM).text
          /\ StoredAfter.step_reports[BucketFor(TheStep.step_type)][TheKey]
                = TheAnalysis
          /\ StoredAfter.updated_at > ReadBefore.updated_at

C4_Witness ==
    /\ Served("analyze")
    /\ TheLLM # None /\ ~Val(TheLLM).ok
    /\ calculate_performance_score(TheStep) # 0
    /\ TheStep.step_type = "AI_CV_GAME"
    /\ StoredAfter.step_reports.game_reports[TheKey].performance_score = 0

\* the score as the scoring section of the specification states it
ReferenceScore(step_result) ==
    IF IsNone(step_result.is_successful) THEN 0
    ELSE LET base == IF Val(step_result.is_successful) THEN 100 ELSE 30
             dur == step_result.duration_seconds
         IN IF IsNone(dur) THEN base
            ELSE IF Val(dur) < 60 THEN (base * 8) \div 10
            ELSE IF Val(dur) > 300 THEN (base * 9) \div 10
            ELSE base

(* C5: stepScore equals the reference of the scoring section: 0 if the      *)
(* success flag is unknown; otherwise 100 or 30, times 0.8 for every        *)
(* duration < 60, times 0.9 for every duration > 300, unchanged in          *)
(* [60, 300] and for an absent duration, truncated; always in [0, 100].     *)
(* Stated as claimed; the code leaves the score of duration 0 unscaled.     *)
C5_ScoreIsReference ==
    ~IsNone(probe.score)
    => /\ Val(probe.score) = ReferenceScore(probe.step_result)
       /\ Val(probe.score) \in 0..100

(* C6: the report of a session only moves forward: a session that has a     *)
(* report never again has none, and a report seen finalized is never        *)
(* afterwards seen not finalized.                                           *)
C6_LifecycleForward ==
    [][\A sid \in AllSessionIds :
          /\ ReportExists(sid) => ReportExists(sid)'
          /\ Finalized(sid) => Finalized(sid)']_vars

C6_Witness ==
    /\ Served("analyze")
    /\ ~IsNone(ReadBefore.finalized_at)
    /\ Finalized(resp.session_id)

(* C7: a second recordStep with the step id and step type of an earlier one *)
(* replaces the entry under step_<id>: the bucket has as many entries as    *)
(* before, one of them for that step id, and getReport shows the second     *)
(* call's StepAnalysis there.                                               *)
C7_SameStepOverwrites ==
    (/\ Served("analyze")
     /\ TheStep.step_type \in KnownStepTypes
     /\ \E k \in DOMAIN ReadBefore.step_reports[BucketFor(TheStep.step_type)] :
           ReadBefore.step_reports[BucketFor(TheStep.step_type)][k].step_id
              = TheStep.step_id)
    => LET b == BucketFor(TheStep.step_type)
           before == ReadBefore.step_reports[b]
           got == get_session_report(llm_reports, resp.session_id).result
           shown == Val(got.body).report.step_reports[b]
       IN /\ ~got.raised
          /\ Cardinality(DOMAIN shown) = Cardinality(DOMAIN before)
          /\ Cardinality({k \in DOMAIN shown :
                             shown[k].step_id = TheStep.step_id}) = 1
          /\ TheKey \in DOMAIN shown
          /\ shown[TheKey] = TheAnalysis

C7_Witness ==
    /\ Served("analyze")
    /\ TheStep.step_type = "AI_QUIZ"
    /\ TheKey \in DOMAIN ReadBefore.step_reports.test_reports
    /\ ReadBefore.step_reports.test_reports[TheKey] # TheAnalysis
    /\ StoredAfter.step_reports.test_reports[TheKey] = TheAnalysis

(* C8: finalize on an existing report whose session exists succeeds, with   *)
(* or without recorded steps and whether the LLM call succeeds or fails: it *)
(* sets final_report and suggestion to the returned FinalAnalysis values,   *)
(* sets finalized-at and updated-at, leaves the three buckets as read; a    *)
(* repeated finalize overwrites final_report and suggestion.                *)
C8_FinalizeSetsFinal ==
    /\ (/\ resp.op = "finalize"
        /\ SessionExists(resp.session_id)
        /\ ReportExists(resp.session_id)) => resp.code = 200
    /\ Served("finalize")
       => LET final_analysis == Val(resp.body).final_analysis
              after == StoredAfter
          IN /\ Val(resp.body).status = "success"
             /\ after.step_reports.final_report = final_analysis.final_report
             /\ after.step_reports.suggestion = final_analysis.suggestions
             /\ final_analysis.final_report.t = "str"
             /\ final_analysis.suggestions.t = "list"
             /\ after.finalized_at = Some(after.updated_at)
             /\ after.updated_at > ReadBefore.updated_at
             /\ SameBuckets(after.step_reports, ReadBefore.step_reports)

C8_Witness ==
    /\ Served("finalize")
    /\ ~IsNone(ReadBefore.finalized_at)
    /\ ~Val(TheLLM).ok
    /\ ReadBefore.step_reports.final_report # StoredAfter.step_reports.final_report
    /\ \A f \in Buckets : DOMAIN StoredAfter.step_reports[f] = {}

(* C9: recordStep with a step type other than the three known ones on an    *)
(* existing session and report raises no error: it succeeds, the report is  *)
(* as it was read except for updated-at, and no bucket holds an entry of    *)
(* that step type.                                                          *)
C9_UnknownTypeDropped ==
    /\ (/\ resp.op = "analyze"
        /\ SessionExists(resp.session_id)
        /\ ReportExists(resp.session_id)) => ~(resp.code \in {404, 500})
    /\ (Served("analyze") /\ TheStep.step_type \notin KnownStepTypes)
       => /\ Val(resp.body).status = "success"
          /\ StoredAfter.step_reports = ReadBefore.step_reports
          /\ StoredAfter.updated_at > ReadBefore.updated_at
          /\ [StoredAfter EXCEPT !.updated_at = ReadBefore.updated_at] = ReadBefore
          /\ \A f \in Buckets : \A k \in DOMAIN StoredAfter.step_reports[f] :
                /\ StoredAfter.step_reports[f][k] # TheAnalysis
                /\ StoredAfter.step_reports[f][k].step_type \in KnownStepTypes

C9_Witness ==
    /\ Served("analyze")
    /\ TheStep.step_type = "AI_OTHER"
    /\ TheStep.step_id = 7
    /\ StepKey(7) \in DOMAIN StoredAfter.step_reports.test_reports
    /\ TheAnalysis.performance_score = 0

DocsOf(coll, session_id) ==
    {coll[i] : i \in {j \in 1..Len(coll) : coll[j].session_id = session_id}}

AnalyzeDone(p) ==
    /\ req[p].pc = "done"
    /\ req[p].op = "analyze"
    /\ Val(req[p].resp).code = 200

AnalysisOf(p) == Val(Val(req[p].resp).body).analysis
KeyOf(p) == StepKey(Val(req[p].step_result).step_id)

\* both requests are answered, and each read the report before the other wrote
BothReadFirst ==
    /\ AnalyzeDone(1) /\ AnalyzeDone(2)
    /\ req[1].session_id = req[2].session_id
    /\ req[1].llm_report = req[2].llm_report
    /\ KeyOf(1) # KeyOf(2)

\* p wrote after q
Later(p, q) == AnalysisOf(p).generated_at > AnalysisOf(q).generated_at

LostUpdate ==
    BothReadFirst
    => \A p, q \in Procs :
          (p # q /\ Later(p, q))
          => LET read == Val(req[p].llm_report)
                 b == BucketFor(Val(req[p].step_result).step_type)
                 stored == Stored(llm_reports, read._id).step_reports[b]
             IN /\ DOMAIN stored = DOMAIN read.step_reports[b] \cup {KeyOf(p)}
                /\ stored[KeyOf(p)] = AnalysisOf(p)
                /\ \A k \in DOMAIN stored : stored[k] # AnalysisOf(q)

Isolated ==
    \A p \in Procs :
       req'[p] # req[p]
       => \A sid \in ConcSessionIds \ {req'[p].session_id, req[p].session_id} :
             DocsOf(llm_reports', sid) = DocsOf(llm_reports, sid)

(* C10: two recordStep requests in flight for one session and different    *)
(* step ids race on the report: when both read the report before either     *)
(* wrote, both return success and the stored report holds the later         *)
(* writer's entry and not the earlier writer's; a request never changes the *)
(* reports of a session other than its own.                                 *)
C10_LastWriterWins == [](LostUpdate) /\ [][Isolated]_vars

C10_Witness ==
    /\ BothReadFirst
    /\ Later(2, 1)
    /\ LET stored == Stored(llm_reports, Val(req[1].llm_report)._id)
                        .step_reports.test_reports
       IN /\ KeyOf(2) \in DOMAIN stored
          /\ KeyOf(1) \notin DOMAIN stored

(* C11: under any interleaving of a finalize request with recordStep        *)
(* requests for the same session, once finalize has completed (finalized-at *)
(* set) the stored final_report and suggestion are values a finalize wrote, *)
(* never the empty initial values again. Stated as claimed; a recordStep    *)
(* that read the report before finalize wrote puts back the step_reports it *)
(* read.                                                                    *)
C11_FinalSurvivesSteps ==
    \A i \in 1..Len(llm_reports) :
       ~IsNone(llm_reports[i].finalized_at)
       => /\ llm_reports[i].step_reports.final_report # EmptyDict
          /\ llm_reports[i].step_reports.suggestion # EmptyDict

=============================================================================
